---------------------------- MODULE Spec2Model ----------------------------
(***************************************************************************)
(* A model of the chess-finder prototype: Point (coordinate geometry),     *)
(* Piece (kind, color, stored coordinate) and Board (an 8x8 pieceList,     *)
(* placement by algebraic square, FEN piece placement, pseudo-legal move   *)
(* enumeration).                                                           *)
(*                                                                         *)
(* JavaScript strings are modelled as sequences of one-character strings,  *)
(* so that indexing (square[0]), splitting and character classes are       *)
(* computed as the code computes them: "d4" is <<"d", "4">>.               *)
(* JavaScript arrays are sequences; a 0-based index i of the code is the   *)
(* 1-based index i + 1 of the model, except in pieceList, which is kept as *)
(* a function over 0..7 so that slots carry the code's own indices.        *)
(***************************************************************************)
EXTENDS Integers, Sequences, FiniteSets, TLC

VARIABLES
    pieceList,    \* Board.pieceList: 8 rows of 8 slots, each a Piece or null
    call,         \* the call the caller made last, with its outcome and value
    pseudoMoves,  \* the local pseudoMoves of the getpseudoLegalMovesForPiece
                  \* activation the last call ran last ([] if it ran none)
    console,      \* the lines console.log received during the last call
    point,        \* a Point object of the caller (geometry calls act on it)
    square,       \* the algebraic square the caller converted into that point
    nCalls        \* the number of calls made so far that write the board

vars == <<pieceList, call, pseudoMoves, console, point, square, nCalls>>

(***************************************************************************)
(* Bounds of the model.                                                    *)
(***************************************************************************)
\* Writing calls a caller makes on one board in the board specification.
MaxCalls == 2
\* Pieces the caller places in the move-enumeration specification.
MaxPieces == 2
\* Rows of a generated FEN placement that differ from the empty row "8".
MaxFenRows == 1

(***************************************************************************)
(* JavaScript values.                                                      *)
(***************************************************************************)
Null == [type |-> "null"]
Undefined == [type |-> "undefined"]
\* NaN, kept apart from every number the code computes with.
NaN == 1000

\* a - b of JavaScript numbers.
Minus(a, b) == IF a = NaN \/ b = NaN THEN NaN ELSE a - b

\* Values a call hands back are tagged, so that any two of them compare.
Array(items) == [type |-> "array", items |-> items]
String(chars) == [type |-> "string", chars |-> chars]
Boolean(b) == [type |-> "boolean", val |-> b]

\* !value
Falsy(value) == value = Null \/ value = Undefined

\* The characters of a JavaScript string literal of the source.
FileLetters == <<"a", "b", "c", "d", "e", "f", "g", "h">>
DigitChars == <<"0", "1", "2", "3", "4", "5", "6", "7", "8", "9">>

\* "abcdefgh".indexOf(letter): the 0-based position, or -1.
IndexOf(letter) ==
    IF \E i \in 1..Len(FileLetters) : FileLetters[i] = letter
    THEN (CHOOSE i \in 1..Len(FileLetters) : FileLetters[i] = letter) - 1
    ELSE -1

\* char.match(/\d/)
IsDigit(char) == \E i \in 1..Len(DigitChars) : DigitChars[i] = char

\* parseInt(char), and the numeric coercion of one character in 8 - number.
ParseInt(char) ==
    IF IsDigit(char)
    THEN (CHOOSE i \in 1..Len(DigitChars) : DigitChars[i] = char) - 1
    ELSE NaN

\* The decimal string of a small integer, as string concatenation produces it.
NumberToString(n) ==
    IF n = NaN THEN <<"N", "a", "N">>
    ELSE IF n \in 0..9 THEN <<DigitChars[n + 1]>>
    ELSE IF n \in 10..19 THEN <<"1", DigitChars[n - 10 + 1]>>
    ELSE IF n \in -9..-1 THEN <<"-", DigitChars[(0 - n) + 1]>>
    ELSE <<"?">>

Types == [PAWN |-> "pawn", BISHOP |-> "bishop", KNIGHT |-> "knight",
          ROOK |-> "rook", KING |-> "king", QUEEN |-> "queen"]
Colors == [BLACK |-> "black", WHITE |-> "white"]

TypeSet == {Types.PAWN, Types.BISHOP, Types.KNIGHT, Types.ROOK, Types.KING, Types.QUEEN}
ColorSet == {Colors.BLACK, Colors.WHITE}

(***************************************************************************)
(* Point.                                                                  *)
(***************************************************************************)
\* new Point(file, rank)
NewPoint(file, rank) == [file |-> file, rank |-> rank]

\* Point.toAlgebraic: letter = "abcdefgh"[file], number = rank + 1.
ToAlgebraic(p) ==
    LET letter == IF p.file \in 0..7 THEN <<FileLetters[p.file + 1]>>
                  ELSE <<"u", "n", "d", "e", "f", "i", "n", "e", "d">>
        number == IF p.rank = NaN THEN NaN ELSE p.rank + 1
    IN letter \o NumberToString(number)

\* square.match(/^[a-h][1-8]$/)
MatchesSquare(sq) ==
    /\ Len(sq) = 2
    /\ IndexOf(sq[1]) >= 0
    /\ ParseInt(sq[2]) \in 1..8

\* Point.setSquare: the point it leaves, or the error it throws.
SetSquare(p, sq) ==
    IF Len(sq) = 0 \/ ~MatchesSquare(sq)
    THEN [outcome |-> "Error: Invalid square", point |-> p]
    ELSE LET letter == sq[1]
             number == sq[2]
             newFile == IndexOf(letter)
             newRank == Minus(8, ParseInt(number))
         IN [outcome |-> "returned", point |-> NewPoint(newFile, newRank)]

\* Point._isInBounds
IsInBounds(f, r) == f >= 0 /\ f <= 7 /\ r >= 0 /\ r <= 7

(***************************************************************************)
(* Board: squares and slots.                                               *)
(***************************************************************************)
\* The constructor's pieceList: eight rows of eight nulls.
EmptyPieceList == [i \in 0..7 |-> [j \in 0..7 |-> Null]]

\* Board.algebraicToPoint (no validation of the square).
AlgebraicToPoint(sq) ==
    LET letter == sq[1]
        number == sq[2]
        file == IndexOf(letter)
        rank == Minus(8, ParseInt(number))
    IN NewPoint(file, rank)

\* new Pawn(color), new Bishop(color), ...: the switch of addPiece.
NewPiece(type, color) == [type |-> type, color |-> color, point |-> Null]

\* Board.getPieceAtSquare: reads pieceList[point.rank][point.file]. A row index
\* outside the array makes the read of [point.file] throw; a file index outside
\* the row reads undefined.
GetPieceAtSquare(pl, sq) ==
    LET pt == AlgebraicToPoint(sq)
    IN IF pt.rank \notin DOMAIN pl
       THEN [outcome |-> "TypeError", value |-> Undefined]
       ELSE IF pt.file \notin DOMAIN pl[pt.rank]
       THEN [outcome |-> "returned", value |-> Undefined]
       ELSE [outcome |-> "returned", value |-> pl[pt.rank][pt.file]]

\* Board.squareIsOccupied: getPieceAtSquare(square) !== null
SquareIsOccupied(pl, sq) ==
    LET got == GetPieceAtSquare(pl, sq)
    IN [outcome |-> got.outcome,
        value |-> IF got.outcome = "returned" THEN got.value # Null ELSE FALSE]

\* A variant of setPieceAtSquare that writes to pieceList[point.rank], the row
\* getPieceAtSquare reads; C10 tells it apart from the code's own.
SetPieceAtSquareSameRow(pl, sq, piece) ==
    LET pt == AlgebraicToPoint(sq)
        row == pt.rank
    IN IF piece = Null \/ row \notin DOMAIN pl
       THEN [outcome |-> "TypeError", pieceList |-> pl]
       ELSE [outcome |-> "returned",
             pieceList |-> [pl EXCEPT ![row] =
                               (pt.file :> [piece EXCEPT !.point = pt]) @@ pl[row]]]

\* Board.setPieceAtSquare: piece.point = point throws on null; otherwise the
\* piece is written to pieceList[7 - point.rank][point.file].
SetPieceAtSquare(pl, sq, piece) ==
    LET pt == AlgebraicToPoint(sq)
        row == Minus(7, pt.rank)
    IN IF piece = Null \/ row \notin DOMAIN pl
       THEN [outcome |-> "TypeError", pieceList |-> pl]
       ELSE [outcome |-> "returned",
             pieceList |-> [pl EXCEPT ![row] =
                               (pt.file :> [piece EXCEPT !.point = pt]) @@ pl[row]]]

\* Board.addPiece
AddPieceTo(pl, type, color, sq) ==
    SetPieceAtSquare(pl, sq, NewPiece(type, color))

\* Board.clearSquare
ClearSquareOf(pl, sq) == SetPieceAtSquare(pl, sq, Null)

\* row.filter( (sq) => sq !== null ) for one row of pieceList.
FilterRow(row) ==
    SelectSeq([f \in 1..8 |-> row[f - 1]], LAMBDA slot : slot # Null)

\* Board.pieces: the rows with their nulls filtered out, concatenated from row
\* 0 to row 7.
Pieces(pl) ==
    FilterRow(pl[0]) \o FilterRow(pl[1]) \o FilterRow(pl[2]) \o FilterRow(pl[3])
        \o FilterRow(pl[4]) \o FilterRow(pl[5]) \o FilterRow(pl[6]) \o FilterRow(pl[7])

(***************************************************************************)
(* Point: rays, neighbourhoods and knight jumps.                           *)
(***************************************************************************)
\* The while loop of Point.getLine, from (f, r) on.
RECURSIVE LineFrom(_, _, _, _, _)
LineFrom(p, f, r, dx, dy) ==
    IF ~(r >= 0 /\ r <= 7 /\ f >= 0 /\ f <= 7) THEN <<>>
    ELSE (IF ~(r = p.rank /\ f = p.file) THEN <<NewPoint(f, r)>> ELSE <<>>)
         \o LineFrom(p, f + dx, r + dy, dx, dy)

\* A variant of getLine whose line starts with the point itself; C13 tells it
\* apart from the code's own.
GetLineWithOrigin(p, dx, dy) ==
    IF dx = 0 /\ dy = 0
    THEN [outcome |-> "Error: Both deltas can't be zero or unspecified", value |-> <<>>]
    ELSE [outcome |-> "returned", value |-> <<p>> \o LineFrom(p, p.file, p.rank, dx, dy)]

\* A variant of getLine that returns an empty line for two zero deltas; C18
\* tells it apart from the code's own.
GetLineSilent(p, dx, dy) ==
    IF dx = 0 /\ dy = 0
    THEN [outcome |-> "returned", value |-> <<>>]
    ELSE [outcome |-> "returned", value |-> LineFrom(p, p.file, p.rank, dx, dy)]

\* Point.getLine(dx, dy): throws when both deltas are zero.
GetLine(p, dx, dy) ==
    IF dx = 0 /\ dy = 0
    THEN [outcome |-> "Error: Both deltas can't be zero or unspecified", value |-> <<>>]
    ELSE [outcome |-> "returned", value |-> LineFrom(p, p.file, p.rank, dx, dy)]

\* Point.getDiagonals
GetDiagonals(p) ==
    << GetLine(p, 1, -1).value, GetLine(p, 1, 1).value,
       GetLine(p, -1, -1).value, GetLine(p, -1, 1).value >>

\* A variant of getStraightLines that walks the line toward the h-file twice
\* and never the line toward the a-file; C8 tells it apart from the code's own.
GetStraightLinesRightTwice(p) ==
    << GetLine(p, 1, 0).value, GetLine(p, 1, 0).value,
       GetLine(p, 0, -1).value, GetLine(p, 0, 1).value >>

\* Point.getStraightLines
GetStraightLines(p) ==
    << GetLine(p, -1, 0).value, GetLine(p, 1, 0).value,
       GetLine(p, 0, -1).value, GetLine(p, 0, 1).value >>

\* Point.getAllLines: straight lines first, then diagonals.
GetAllLines(p) == GetStraightLines(p) \o GetDiagonals(p)

\* The cells the loops of Point.getAdjacent visit: r from rank - 1 to rank + 1,
\* and for each r, f from file - 1 to file + 1.
AdjacentCells(p) ==
    [i \in 1..9 |-> NewPoint(p.file - 1 + ((i - 1) % 3), p.rank - 1 + ((i - 1) \div 3))]

\* Point.getAdjacent: the visited cells other than the point's own that are
\* in bounds.
GetAdjacent(p) ==
    SelectSeq(AdjacentCells(p),
              LAMBDA q : /\ ~(q.file = p.file /\ q.rank = p.rank)
                         /\ q.file >= 0 /\ q.file <= 7 /\ q.rank >= 0 /\ q.rank <= 7)

\* A variant of the deltas in which dx runs to 2 on the middle row; C14 tells
\* it apart from the code's own.
SurroundingDeltasWide ==
    << <<-1, -1>>, <<0, -1>>, <<1, -1>>,
       <<-1, 0>>,  <<0, 0>>,  <<2, 0>>,
       <<-1, 1>>,  <<0, 1>>,  <<1, 1>> >>

\* Point.getSurroundingPoints: dy outer loop, dx inner loop, both -1..1.
SurroundingDeltas ==
    << <<-1, -1>>, <<0, -1>>, <<1, -1>>,
       <<-1, 0>>,  <<0, 0>>,  <<1, 0>>,
       <<-1, 1>>,  <<0, 1>>,  <<1, 1>> >>

RECURSIVE SurroundingFrom(_, _)
SurroundingFrom(p, i) ==
    IF i > Len(SurroundingDeltas) THEN <<>>
    ELSE LET dx == SurroundingDeltas[i][1]
             dy == SurroundingDeltas[i][2]
         IN (IF dx = 0 /\ dy = 0 THEN <<>>
             ELSE IF IsInBounds(p.file + dx, p.rank + dy)
             THEN <<NewPoint(p.file + dx, p.rank + dy)>>
             ELSE <<>>)
            \o SurroundingFrom(p, i + 1)

GetSurroundingPoints(p) == SurroundingFrom(p, 1)

\* A variant of the deltas array that lists (2, -1) twice and (-1, 2) never;
\* C12 tells it apart from the code's own.
KnightDeltasTwice ==
    << <<2, -1>>, <<2, 1>>, <<-2, -1>>, <<-2, 1>>,
       <<1, -2>>, <<1, 2>>, <<-1, -2>>, <<2, -1>> >>

\* The deltas array of Point.getKnightPoints: file, rank delta pairs.
KnightDeltas ==
    << <<2, -1>>, <<2, 1>>, <<-2, -1>>, <<-2, 1>>,
       <<1, -2>>, <<1, 2>>, <<-1, -2>>, <<-1, 2>> >>

RECURSIVE KnightFrom(_, _)
KnightFrom(p, i) ==
    IF i > Len(KnightDeltas) THEN <<>>
    ELSE LET d == KnightDeltas[i]
         IN (IF IsInBounds(p.file + d[1], p.rank + d[2])
             THEN <<NewPoint(p.file + d[1], p.rank + d[2])>>
             ELSE <<>>)
            \o KnightFrom(p, i + 1)

\* Point.getKnightPoints
GetKnightPoints(p) == KnightFrom(p, 1)

(***************************************************************************)
(* Board: pseudo-legal move enumeration.                                   *)
(***************************************************************************)
\* A variant of isKing that is never true; C11 tells it apart from the code's
\* own.
IsKingNever(piece) == FALSE

\* Piece.isKing
IsKing(piece) == piece.type = Types.KING

\* The loop of Board.findUnblockedPoints, from index i on.
RECURSIVE UnblockedFrom(_, _, _, _, _)
UnblockedFrom(pl, pointList, color, includeCaptures, i) ==
    IF i > Len(pointList) THEN <<>>
    ELSE LET pt == pointList[i]
             pieceOnSquare == GetPieceAtSquare(pl, ToAlgebraic(pt)).value
         IN (IF Falsy(pieceOnSquare)
                \/ (includeCaptures /\ pieceOnSquare.color # color /\ ~IsKing(pieceOnSquare))
             THEN <<pt>> ELSE <<>>)
            \o UnblockedFrom(pl, pointList, color, includeCaptures, i + 1)

\* Board.findUnblockedPoints
FindUnblockedPoints(pl, pointList, color, includeCaptures) ==
    UnblockedFrom(pl, pointList, color, includeCaptures, 1)

\* A variant of the chain in which a piece of the walker's own color is pushed
\* like a capture; C6 tells it apart from the code's own.
LineStepOwnPushed(pieceOnSquare, color) ==
    IF Falsy(pieceOnSquare)
    THEN [push |-> TRUE, blockedLine |-> FALSE]
    ELSE IF pieceOnSquare.color = color
    THEN [push |-> TRUE, blockedLine |-> TRUE]
    ELSE IF pieceOnSquare.color # color /\ pieceOnSquare.type # Types.KING
    THEN [push |-> TRUE, blockedLine |-> TRUE]
    ELSE [push |-> FALSE, blockedLine |-> FALSE]

\* A variant of the chain in which a capture does not set blockedLine; C7
\* tells it apart from the code's own.
LineStepCaptureGoesOn(pieceOnSquare, color) ==
    IF Falsy(pieceOnSquare)
    THEN [push |-> TRUE, blockedLine |-> FALSE]
    ELSE IF pieceOnSquare.color = color
    THEN [push |-> FALSE, blockedLine |-> TRUE]
    ELSE IF pieceOnSquare.color # color /\ pieceOnSquare.type # Types.KING
    THEN [push |-> TRUE, blockedLine |-> FALSE]
    ELSE [push |-> FALSE, blockedLine |-> FALSE]

\* The if / else-if chain of Board.findUnblockedPointsOnLine for one point of
\* a line: whether the point is pushed and whether blockedLine is set. An
\* opposite-color king takes none of the three branches.
LineStep(pieceOnSquare, color) ==
    IF Falsy(pieceOnSquare)
    THEN [push |-> TRUE, blockedLine |-> FALSE]
    ELSE IF pieceOnSquare.color = color
    THEN [push |-> FALSE, blockedLine |-> TRUE]
    ELSE IF pieceOnSquare.color # color /\ pieceOnSquare.type # Types.KING
    THEN [push |-> TRUE, blockedLine |-> TRUE]
    ELSE [push |-> FALSE, blockedLine |-> FALSE]

\* The inner loop of Board.findUnblockedPointsOnLine over one line, from index
\* k on, entered with blockedLine false: it runs while k < length and
\* blockedLine is false.
RECURSIVE WalkLine(_, _, _, _)
WalkLine(pl, line, color, k) ==
    IF k > Len(line) THEN <<>>
    ELSE LET p == line[k]
             pieceOnSquare == GetPieceAtSquare(pl, ToAlgebraic(p)).value
             step == LineStep(pieceOnSquare, color)
         IN (IF step.push THEN <<p>> ELSE <<>>)
            \o (IF step.blockedLine THEN <<>> ELSE WalkLine(pl, line, color, k + 1))

\* The outer loop of Board.findUnblockedPointsOnLine, from line i on.
RECURSIVE WalkLines(_, _, _, _)
WalkLines(pl, lines, color, i) ==
    IF i > Len(lines) THEN <<>>
    ELSE WalkLine(pl, lines[i], color, 1) \o WalkLines(pl, lines, color, i + 1)

\* Board.findUnblockedPointsOnLine
FindUnblockedPointsOnLine(pl, lines, color) == WalkLines(pl, lines, color, 1)

\* Piece.getPointAhead
GetPointAhead(piece) ==
    LET rankAhead == IF piece.color = "black" THEN piece.point.rank + 1
                     ELSE piece.point.rank - 1
        pointAhead == NewPoint(piece.point.file, rankAhead)
    IN IF IsInBounds(pointAhead.file, pointAhead.rank) THEN pointAhead ELSE Null

\* Board.getPawnPseudoMoves: pointList.concat(pointAhead) builds a new array
\* that is dropped, and the function ends without a return statement.
GetPawnPseudoMoves(piece) ==
    LET pointList == <<>>
        pointAhead == GetPointAhead(piece)
        dropped == IF ~Falsy(pointAhead) THEN pointList \o <<pointAhead>> ELSE pointList
    IN Undefined

\* pseudoMoves.forEach( x => console.log(x.toAlgebraic()) )
RECURSIVE LogEach(_, _)
LogEach(moves, i) ==
    IF i > Len(moves) THEN <<>>
    ELSE <<ToAlgebraic(moves[i])>> \o LogEach(moves, i + 1)

\* A variant of the square getter that names the rank as 8 - rank; C21 tells
\* it apart from the code's own.
PieceSquareEightMinus(piece) ==
    IF ~Falsy(piece.point)
    THEN <<FileLetters[piece.point.file + 1]>> \o NumberToString(8 - piece.point.rank)
    ELSE Null

\* Piece.square
PieceSquare(piece) ==
    IF ~Falsy(piece.point) THEN ToAlgebraic(piece.point) ELSE Null

\* The template string of the first console.log of each case.
Header(piece, name) ==
    <<"The pseudomoves for the", piece.color, name, "on", PieceSquare(piece), "are:">>

\* The local pseudoMoves of Board.getpseudoLegalMovesForPiece when its switch
\* is left: the pawn case assigns pointList and leaves pseudoMoves [].
EnumeratedMoves(pl, piece) ==
    CASE piece.type = Types.BISHOP ->
            FindUnblockedPointsOnLine(pl, GetDiagonals(piece.point), piece.color)
      [] piece.type = Types.ROOK ->
            FindUnblockedPointsOnLine(pl, GetStraightLines(piece.point), piece.color)
      [] piece.type = Types.QUEEN ->
            FindUnblockedPointsOnLine(pl, GetAllLines(piece.point), piece.color)
      [] piece.type = Types.KING ->
            FindUnblockedPoints(pl, GetSurroundingPoints(piece.point), piece.color, TRUE)
      [] piece.type = Types.KNIGHT ->
            FindUnblockedPoints(pl, GetKnightPoints(piece.point), piece.color, TRUE)
      [] piece.type = Types.PAWN ->
            LET pointList == GetPawnPseudoMoves(piece) IN <<>>
      [] OTHER -> <<>>

\* The name each case of the switch prints.
PrintedName(piece) ==
    CASE piece.type = Types.BISHOP -> "Bishop"
      [] piece.type = Types.ROOK -> "Rook"
      [] piece.type = Types.QUEEN -> "Queen"
      [] piece.type = Types.KING -> "King"
      [] piece.type = Types.KNIGHT -> "Knight"
      [] OTHER -> "Pawn"

\* Board.getpseudoLegalMovesForPiece: what it enumerated, what it logged, and
\* the value it hands back. No case returns and no return follows the switch,
\* so the call evaluates to undefined.
GetpseudoLegalMovesForPiece(pl, piece) ==
    LET enumerated == EnumeratedMoves(pl, piece)
    IN [pseudoMoves |-> enumerated,
        console |-> <<Header(piece, PrintedName(piece))>> \o LogEach(enumerated, 1),
        value |-> Undefined]

\* The loop of Board.getpseudoLegalMoves over this.pieces, from index p on,
\* with moves as built so far: moves grows only by a truthy newMoves.
RECURSIVE MovesFrom(_, _, _, _)
MovesFrom(pl, pieces, p, sofar) ==
    IF p > Len(pieces) THEN sofar
    ELSE LET one == GetpseudoLegalMovesForPiece(pl, pieces[p])
             newMoves == one.value
         IN MovesFrom(pl, pieces, p + 1,
                [moves |-> sofar.moves \o (IF ~Falsy(newMoves) THEN newMoves.items ELSE <<>>),
                 console |-> sofar.console \o one.console,
                 pseudoMoves |-> one.pseudoMoves])

\* Board.getpseudoLegalMoves
GetpseudoLegalMoves(pl) ==
    MovesFrom(pl, Pieces(pl), 1, [moves |-> <<>>, console |-> <<>>, pseudoMoves |-> <<>>])

(***************************************************************************)
(* Board and Piece: the analyses this version leaves open.                 *)
(***************************************************************************)
\* Board.isInCheck, isInDoubleCheck, isCheckmated, isPseudoStalemated: each
\* has an empty body (comments only), so each call returns undefined.
IsInCheck(color) == [outcome |-> "returned", value |-> Undefined]
IsInDoubleCheck(color) == [outcome |-> "returned", value |-> Undefined]
IsCheckmated(color) == [outcome |-> "returned", value |-> Undefined]
IsPseudoStalemated(color) == [outcome |-> "returned", value |-> Undefined]

\* Piece.isOverworked: a getter with an empty body.
IsOverworked(piece) == [outcome |-> "returned", value |-> Undefined]

\* Piece.isEnPrise: a getter that throws new Error("Not Implemented").
IsEnPrise(piece) == [outcome |-> "Error: Not Implemented", value |-> Undefined]

\* Piece.isOnStartingSquare: the Pawn override compares point.rank with 1 for
\* black and 6 for white. Every other class inherits the Piece method, which
\* calls contains on an array, a method arrays do not have.
IsOnStartingSquare(piece) ==
    IF piece.type = Types.PAWN
    THEN IF piece.color = Colors.BLACK /\ piece.point.rank = 1
         THEN [outcome |-> "returned", value |-> Boolean(TRUE)]
         ELSE IF piece.color = Colors.WHITE /\ piece.point.rank = 6
         THEN [outcome |-> "returned", value |-> Boolean(TRUE)]
         ELSE [outcome |-> "returned", value |-> Boolean(FALSE)]
    ELSE [outcome |-> "TypeError", value |-> Undefined]

(***************************************************************************)
(* Board: FEN piece placement.                                             *)
(***************************************************************************)
\* str.split(sep) for a one-character separator, from index i on, with the
\* piece gathered so far.
RECURSIVE SplitFrom(_, _, _, _)
SplitFrom(str, sep, i, cur) ==
    IF i > Len(str) THEN <<cur>>
    ELSE IF str[i] = sep THEN <<cur>> \o SplitFrom(str, sep, i + 1, <<>>)
    ELSE SplitFrom(str, sep, i + 1, Append(cur, str[i]))

Split(str, sep) == SplitFrom(str, sep, 1, <<>>)

LowerLetters == <<"r", "n", "b", "k", "q", "p">>
UpperLetters == <<"R", "N", "B", "K", "Q", "P">>

\* char.match(/[rnbkqp]/)
IsBlackLetter(char) == \E i \in 1..Len(LowerLetters) : LowerLetters[i] = char

LowerAlphabet ==
    <<"a", "b", "c", "d", "e", "f", "g", "h", "i", "j", "k", "l", "m",
      "n", "o", "p", "q", "r", "s", "t", "u", "v", "w", "x", "y", "z">>
UpperAlphabet ==
    <<"A", "B", "C", "D", "E", "F", "G", "H", "I", "J", "K", "L", "M",
      "N", "O", "P", "Q", "R", "S", "T", "U", "V", "W", "X", "Y", "Z">>

\* char.toUpperCase(): a lower-case letter becomes its capital, any other
\* character stays.
ToUpperCase(char) ==
    IF \E i \in 1..Len(LowerAlphabet) : LowerAlphabet[i] = char
    THEN UpperAlphabet[CHOOSE i \in 1..Len(LowerAlphabet) : LowerAlphabet[i] = char]
    ELSE char

\* The switch of setPositionFromFEN: the type a letter places, if any.
TypeOfLetter(char) ==
    CASE char = "P" -> Types.PAWN
      [] char = "B" -> Types.BISHOP
      [] char = "N" -> Types.KNIGHT
      [] char = "R" -> Types.ROOK
      [] char = "K" -> Types.KING
      [] char = "Q" -> Types.QUEEN
      [] OTHER -> "none"

\* The while loop of setPositionFromFEN over one row string.
RECURSIVE ParseRow(_, _, _, _, _)
ParseRow(pl, str, rank, file, index) ==
    IF ~(file <= 8 /\ index < Len(str))
    THEN [outcome |-> "returned", pieceList |-> pl]
    ELSE LET char == str[index + 1]
         IN IF IsDigit(char)
            THEN ParseRow(pl, str, rank, file + ParseInt(char), index + 1)
            ELSE LET color == IF IsBlackLetter(char) THEN Colors.BLACK ELSE Colors.WHITE
                     upper == ToUpperCase(char)
                     pt == NewPoint(file, rank)
                     sq == ToAlgebraic(pt)
                     placed == IF TypeOfLetter(upper) # "none"
                               THEN AddPieceTo(pl, TypeOfLetter(upper), color, sq)
                               ELSE [outcome |-> "returned", pieceList |-> pl]
                 IN IF placed.outcome # "returned" THEN placed
                    ELSE ParseRow(placed.pieceList, str, rank, file + 1, index + 1)

\* The for loop of setPositionFromFEN over i = 0..7: rows[i] is undefined when
\* the field has fewer rows, and str.length then throws.
RECURSIVE ParseRows(_, _, _)
ParseRows(pl, rows, i) ==
    IF i >= 8 THEN [outcome |-> "returned", pieceList |-> pl]
    ELSE IF i + 1 > Len(rows) THEN [outcome |-> "TypeError", pieceList |-> pl]
    ELSE LET row == ParseRow(pl, rows[i + 1], i, 0, 0)
         IN IF row.outcome # "returned" THEN row
            ELSE ParseRows(row.pieceList, rows, i + 1)

\* Board.setPositionFromFEN
SetPositionFromFEN(pl, fenString) ==
    LET parts == Split(fenString, " ")
        boardString == parts[1]
        rows == Split(boardString, "/")
    IN ParseRows(pl, rows, 0)

\* The string literals of setInitialPosition and setNoPawnsPosition.
TrailingFields == <<" ", "w", " ", "K", "Q", "k", "q", " ", "-", " ", "0", " ", "1">>

InitialFEN ==
    <<"r", "n", "b", "q", "k", "b", "n", "r", "/",
      "p", "p", "p", "p", "p", "p", "p", "p", "/",
      "8", "/", "8", "/", "8", "/", "8", "/",
      "P", "P", "P", "P", "P", "P", "P", "P", "/",
      "R", "N", "B", "Q", "K", "B", "N", "R">> \o TrailingFields

NoPawnsFEN ==
    <<"r", "n", "b", "q", "k", "b", "n", "r", "/",
      "8", "/", "8", "/", "8", "/", "8", "/", "8", "/", "8", "/",
      "R", "N", "B", "Q", "K", "B", "N", "R">> \o TrailingFields

(***************************************************************************)
(* The caller's inputs.                                                    *)
(***************************************************************************)
\* Every square of the board in algebraic notation.
AllSquares == {<<FileLetters[f], DigitChars[n + 1]>> : f \in 1..8, n \in 1..8}

\* Strings that are no square: a file past h, a rank past 8, rank 0, no digit.
InvalidSquares == {<<"i", "1">>, <<"a", "9">>, <<"a", "0">>, <<"z", "z">>}

\* The squares the board specification writes and reads: the corners of the
\* a-file, two central squares that mirror each other across the middle of the
\* board, and a square of the h-file.
SampleSquares == {<<"a", "1">>, <<"a", "8">>, <<"d", "4">>, <<"d", "5">>, <<"h", "7">>}

\* The squares the move-enumeration specification places pieces on: d4, the
\* two squares above it on the d-file, b4 on its rank and f6 on its diagonal;
\* d6 shares its rank with f6 and a diagonal with b4.
PlaceSquares ==
    {<<"d", "4">>, <<"d", "5">>, <<"d", "6">>, <<"b", "4">>, <<"f", "6">>}

\* Rows of a piece-placement field, each describing eight files.
FenRowSet ==
    { <<"R", "7">>, <<"7", "r">>, <<"3", "k", "4">>, <<"4", "K", "3">>,
      <<"1", "n", "2", "Q", "3">>, <<"2", "b", "2", "B", "2">>,
      <<"p", "p", "p", "p", "p", "p", "p", "p">>,
      <<"P", "1", "P", "1", "p", "1", "p", "1">>,
      <<"r", "n", "b", "q", "k", "b", "n", "r">>,
      <<"R", "N", "B", "Q", "K", "B", "N", "R">>,
      <<"Q", "6", "q">>, <<"1", "1", "N", "2", "3">> }

EmptyRow == <<"8">>

\* rows[1], "/", rows[2], "/", ..., rows[8]
RECURSIVE JoinRows(_, _)
JoinRows(rows, i) ==
    IF i > Len(rows) THEN <<>>
    ELSE rows[i] \o (IF i < Len(rows) THEN <<"/">> ELSE <<>>) \o JoinRows(rows, i + 1)

\* The well-formed piece-placement fields with at most MaxFenRows rows that
\* are not empty: the rows at the chosen places come from FenRowSet.
PlacementFields ==
    UNION { { JoinRows([i \in 1..8 |-> IF i \in places THEN chosen[i] ELSE EmptyRow], 1) :
                chosen \in [places -> FenRowSet] } :
            places \in {ps \in SUBSET (1..8) : Cardinality(ps) <= MaxFenRows} }

\* Eight rows of which one is a row of FenRowSet and the others are empty.
OneRowPlacements ==
    { [i \in 1..8 |-> IF i = k THEN row ELSE EmptyRow] : k \in 1..8, row \in FenRowSet }

\* Rows that are no row of a placement field: a character that is no piece
\* letter, a digit past 8, a letter followed by eight empty files, eight empty
\* files followed by a letter, nine pawns.
BadRows ==
    { <<"3", "x", "4">>, <<"9">>, <<"R", "8">>, <<"8", "R">>,
      <<"P", "P", "P", "P", "P", "P", "P", "P", "P">> }

\* Structurally invalid placement fields: a field with its last row missing,
\* a field with a ninth row, a field with one row replaced by a bad row.
MalformedFENs ==
    UNION { { JoinRows(SubSeq(rows, 1, 7), 1),
              JoinRows(rows \o << <<"R", "7">> >>, 1) }
            \cup { JoinRows([rows EXCEPT ![k] = bad], 1) : k \in 1..8, bad \in BadRows } :
            rows \in OneRowPlacements }

\* The FEN records the board specification loads: a lone white rook on a1,
\* and a black king and a white queen with the other fields after them.
SampleFENs ==
    { <<"8", "/", "8", "/", "8", "/", "8", "/", "8", "/", "8", "/", "8", "/", "R", "7">>,
      <<"4", "k", "3", "/", "8", "/", "8", "/", "3", "Q", "4", "/", "8", "/", "8", "/",
        "8", "/", "8">> \o TrailingFields }

\* FEN records: a placement field alone, or followed by the other fields.
FenStrings == PlacementFields \cup { field \o TrailingFields : field \in PlacementFields }

(***************************************************************************)
(* The calls of the caller, one action each.                               *)
(***************************************************************************)
NoCall == [op |-> "none", args |-> <<>>, outcome |-> "none", value |-> Undefined]

\* board.addPiece(type, color, sq)
AddPiece(type, color, sq) ==
    LET r == AddPieceTo(pieceList, type, color, sq)
    IN /\ pieceList' = r.pieceList
       /\ call' = [op |-> "addPiece",
                   args |-> [type |-> type, color |-> color, square |-> sq],
                   outcome |-> r.outcome, value |-> Undefined]
       /\ pseudoMoves' = <<>>
       /\ console' = <<>>
       /\ nCalls' = nCalls + 1
       /\ UNCHANGED <<point, square>>

\* board.clearSquare(sq)
ClearSquare(sq) ==
    LET r == ClearSquareOf(pieceList, sq)
    IN /\ pieceList' = r.pieceList
       /\ call' = [op |-> "clearSquare", args |-> [square |-> sq],
                   outcome |-> r.outcome, value |-> Undefined]
       /\ pseudoMoves' = <<>>
       /\ console' = <<>>
       /\ nCalls' = nCalls + 1
       /\ UNCHANGED <<point, square>>

\* board.getPieceAtSquare(sq)
ReadPiece(sq) ==
    LET r == GetPieceAtSquare(pieceList, sq)
    IN /\ call' = [op |-> "getPieceAtSquare", args |-> [square |-> sq],
                   outcome |-> r.outcome, value |-> r.value]
       /\ pseudoMoves' = <<>>
       /\ console' = <<>>
       /\ UNCHANGED <<pieceList, point, square, nCalls>>

\* board.squareIsOccupied(sq)
ReadOccupied(sq) ==
    LET r == SquareIsOccupied(pieceList, sq)
    IN /\ call' = [op |-> "squareIsOccupied", args |-> [square |-> sq],
                   outcome |-> r.outcome,
                   value |-> IF r.outcome = "returned" THEN Boolean(r.value) ELSE Undefined]
       /\ pseudoMoves' = <<>>
       /\ console' = <<>>
       /\ UNCHANGED <<pieceList, point, square, nCalls>>

\* board.setPositionFromFEN(fenString)
LoadFEN(fenString) ==
    LET r == SetPositionFromFEN(pieceList, fenString)
    IN /\ pieceList' = r.pieceList
       /\ call' = [op |-> "setPositionFromFEN", args |-> [fen |-> fenString],
                   outcome |-> r.outcome, value |-> Undefined]
       /\ pseudoMoves' = <<>>
       /\ console' = <<>>
       /\ nCalls' = nCalls + 1
       /\ UNCHANGED <<point, square>>

\* board.setInitialPosition()
SetInitialPosition == LoadFEN(InitialFEN)

\* board.setNoPawnsPosition()
SetNoPawnsPosition == LoadFEN(NoPawnsFEN)

\* board.getpseudoLegalMovesForPiece(board.pieces[i - 1])
MovesForPiece(i) ==
    /\ i \in 1..Len(Pieces(pieceList))
    /\ \E piece \in {Pieces(pieceList)[i]} :
       \E r \in {GetpseudoLegalMovesForPiece(pieceList, piece)} :
          /\ call' = [op |-> "getpseudoLegalMovesForPiece", args |-> [piece |-> piece],
                      outcome |-> "returned", value |-> r.value]
          /\ pseudoMoves' = r.pseudoMoves
          /\ console' = r.console
    /\ UNCHANGED <<pieceList, point, square, nCalls>>

\* board.getpseudoLegalMoves()
AllMoves ==
    /\ \E r \in {GetpseudoLegalMoves(pieceList)} :
          /\ call' = [op |-> "getpseudoLegalMoves", args |-> <<>>,
                      outcome |-> "returned", value |-> Array(r.moves)]
          /\ pseudoMoves' = r.pseudoMoves
          /\ console' = r.console
    /\ UNCHANGED <<pieceList, point, square, nCalls>>

\* point = board.algebraicToPoint(sq)
ConvertSquare(sq) ==
    /\ point' = AlgebraicToPoint(sq)
    /\ square' = sq
    /\ call' = [op |-> "algebraicToPoint", args |-> [square |-> sq],
                outcome |-> "returned", value |-> point']
    /\ UNCHANGED <<pieceList, pseudoMoves, console, nCalls>>

\* point.setSquare(sq)
PointSetSquare(sq) ==
    LET r == SetSquare(point, sq)
    IN /\ point' = r.point
       /\ square' = IF r.outcome = "returned" THEN sq ELSE square
       /\ call' = [op |-> "setSquare", args |-> [square |-> sq],
                   outcome |-> r.outcome, value |-> Undefined]
       /\ UNCHANGED <<pieceList, pseudoMoves, console, nCalls>>

\* point.toAlgebraic()
PointToAlgebraic ==
    /\ call' = [op |-> "toAlgebraic", args |-> [point |-> point],
                outcome |-> "returned", value |-> String(ToAlgebraic(point))]
    /\ UNCHANGED <<pieceList, pseudoMoves, console, point, square, nCalls>>

\* point.getKnightPoints()
PointKnightPoints ==
    /\ call' = [op |-> "getKnightPoints", args |-> [point |-> point],
                outcome |-> "returned", value |-> Array(GetKnightPoints(point))]
    /\ UNCHANGED <<pieceList, pseudoMoves, console, point, square, nCalls>>

\* point.getSurroundingPoints()
PointSurroundingPoints ==
    /\ call' = [op |-> "getSurroundingPoints", args |-> [point |-> point],
                outcome |-> "returned", value |-> Array(GetSurroundingPoints(point))]
    /\ UNCHANGED <<pieceList, pseudoMoves, console, point, square, nCalls>>

\* point.getAdjacent()
PointAdjacent ==
    /\ call' = [op |-> "getAdjacent", args |-> [point |-> point],
                outcome |-> "returned", value |-> Array(GetAdjacent(point))]
    /\ UNCHANGED <<pieceList, pseudoMoves, console, point, square, nCalls>>

\* point.getLine(dx, dy); getLine() with a delta left out runs with 0 for it.
PointGetLine(dx, dy) ==
    /\ \E r \in {GetLine(point, dx, dy)} :
          call' = [op |-> "getLine", args |-> [point |-> point, dx |-> dx, dy |-> dy],
                   outcome |-> r.outcome,
                   value |-> IF r.outcome = "returned" THEN Array(r.value) ELSE Undefined]
    /\ UNCHANGED <<pieceList, pseudoMoves, console, point, square, nCalls>>

\* board.isInCheck(color), board.isInDoubleCheck(color),
\* board.isCheckmated(color), board.isPseudoStalemated(color)
AskIsInCheck(color) ==
    /\ call' = [op |-> "isInCheck", args |-> [color |-> color],
                outcome |-> IsInCheck(color).outcome, value |-> IsInCheck(color).value]
    /\ pseudoMoves' = <<>>
    /\ console' = <<>>
    /\ UNCHANGED <<pieceList, point, square, nCalls>>

AskIsInDoubleCheck(color) ==
    /\ call' = [op |-> "isInDoubleCheck", args |-> [color |-> color],
                outcome |-> IsInDoubleCheck(color).outcome,
                value |-> IsInDoubleCheck(color).value]
    /\ pseudoMoves' = <<>>
    /\ console' = <<>>
    /\ UNCHANGED <<pieceList, point, square, nCalls>>

AskIsCheckmated(color) ==
    /\ call' = [op |-> "isCheckmated", args |-> [color |-> color],
                outcome |-> IsCheckmated(color).outcome,
                value |-> IsCheckmated(color).value]
    /\ pseudoMoves' = <<>>
    /\ console' = <<>>
    /\ UNCHANGED <<pieceList, point, square, nCalls>>

AskIsPseudoStalemated(color) ==
    /\ call' = [op |-> "isPseudoStalemated", args |-> [color |-> color],
                outcome |-> IsPseudoStalemated(color).outcome,
                value |-> IsPseudoStalemated(color).value]
    /\ pseudoMoves' = <<>>
    /\ console' = <<>>
    /\ UNCHANGED <<pieceList, point, square, nCalls>>

\* board.pieces[i - 1].isOverworked
ReadIsOverworked(i) ==
    /\ i \in 1..Len(Pieces(pieceList))
    /\ \E piece \in {Pieces(pieceList)[i]} :
          call' = [op |-> "isOverworked", args |-> [piece |-> piece],
                   outcome |-> IsOverworked(piece).outcome,
                   value |-> IsOverworked(piece).value]
    /\ pseudoMoves' = <<>>
    /\ console' = <<>>
    /\ UNCHANGED <<pieceList, point, square, nCalls>>

\* board.pieces[i - 1].isEnPrise
ReadIsEnPrise(i) ==
    /\ i \in 1..Len(Pieces(pieceList))
    /\ \E piece \in {Pieces(pieceList)[i]} :
          call' = [op |-> "isEnPrise", args |-> [piece |-> piece],
                   outcome |-> IsEnPrise(piece).outcome,
                   value |-> IsEnPrise(piece).value]
    /\ pseudoMoves' = <<>>
    /\ console' = <<>>
    /\ UNCHANGED <<pieceList, point, square, nCalls>>

\* board.pieces[i - 1].isOnStartingSquare()
ReadIsOnStartingSquare(i) ==
    /\ i \in 1..Len(Pieces(pieceList))
    /\ \E piece \in {Pieces(pieceList)[i]} :
          call' = [op |-> "isOnStartingSquare", args |-> [piece |-> piece],
                   outcome |-> IsOnStartingSquare(piece).outcome,
                   value |-> IsOnStartingSquare(piece).value]
    /\ pseudoMoves' = <<>>
    /\ console' = <<>>
    /\ UNCHANGED <<pieceList, point, square, nCalls>>

(***************************************************************************)
(* Specifications.                                                         *)
(***************************************************************************)
\* The state after new Board(): the caller holds no point yet.
Init ==
    /\ pieceList = EmptyPieceList
    /\ call = NoCall
    /\ pseudoMoves = <<>>
    /\ console = <<>>
    /\ point = Null
    /\ square = <<>>
    /\ nCalls = 0

\* The board's placement interface: up to MaxCalls writes, with reads between.
Next ==
    \/ /\ nCalls < MaxCalls
       /\ \E type \in TypeSet, color \in ColorSet, sq \in SampleSquares :
             AddPiece(type, color, sq)
    \/ /\ nCalls < MaxCalls
       /\ \E sq \in SampleSquares : ClearSquare(sq)
    \/ \E sq \in SampleSquares : ReadPiece(sq)
    \/ \E sq \in SampleSquares : ReadOccupied(sq)
    \/ /\ nCalls < MaxCalls
       /\ \E fen \in SampleFENs : LoadFEN(fen)
    \/ nCalls < MaxCalls /\ SetInitialPosition
    \/ nCalls < MaxCalls /\ SetNoPawnsPosition

Spec == Init /\ [][Next]_vars

\* Coordinate conversions: the caller holds a Point built with in-bounds
\* coordinates and converts squares into it and back.
InitGeometry ==
    /\ pieceList = EmptyPieceList
    /\ call = NoCall
    /\ pseudoMoves = <<>>
    /\ console = <<>>
    /\ point \in {NewPoint(f, r) : f \in 0..7, r \in 0..7}
    /\ square = <<>>
    /\ nCalls = 0

NextGeometry ==
    \/ \E sq \in AllSquares \cup InvalidSquares : ConvertSquare(sq)
    \/ \E sq \in AllSquares \cup InvalidSquares : PointSetSquare(sq)
    \/ PointToAlgebraic
    \/ PointKnightPoints
    \/ PointSurroundingPoints
    \/ PointAdjacent
    \/ \E dx \in -1..1, dy \in -1..1 : PointGetLine(dx, dy)

SpecGeometry == InitGeometry /\ [][NextGeometry]_vars

\* Move enumeration: the caller places up to MaxPieces pieces on PlaceSquares
\* and then asks once for the moves of one piece or of all.
Placing == call.op \in {"none", "addPiece"}

NextMoves ==
    \/ /\ Placing
       /\ nCalls < MaxPieces
       /\ \E type \in TypeSet, color \in ColorSet, sq \in PlaceSquares :
             AddPiece(type, color, sq)
    \/ /\ Placing
       /\ \E i \in 1..MaxPieces : MovesForPiece(i)
    \/ /\ Placing
       /\ AllMoves

SpecMoves == Init /\ [][NextMoves]_vars

\* Move enumeration for a lone piece: one placement on any square of an empty
\* board, then the enumeration.
NextLone ==
    \/ /\ Pieces(pieceList) = <<>>
       /\ \E type \in TypeSet, color \in ColorSet, sq \in AllSquares :
             AddPiece(type, color, sq)
    \/ MovesForPiece(1)
    \/ AllMoves

SpecLone == Init /\ [][NextLone]_vars

\* FEN loading: one FEN record is loaded into the board just created.
NextFEN ==
    \/ /\ nCalls = 0
       /\ \E fen \in FenStrings : LoadFEN(fen)
    \/ nCalls = 0 /\ SetInitialPosition
    \/ nCalls = 0 /\ SetNoPawnsPosition

SpecFEN == Init /\ [][NextFEN]_vars

\* Placement only: up to MaxCalls calls of addPiece and setPositionFromFEN, in
\* any order.
NextPlaced ==
    \/ /\ nCalls < MaxCalls
       /\ \E type \in TypeSet, color \in ColorSet, sq \in SampleSquares :
             AddPiece(type, color, sq)
    \/ /\ nCalls < MaxCalls
       /\ \E fen \in SampleFENs : LoadFEN(fen)
    \/ nCalls < MaxCalls /\ SetInitialPosition

SpecPlaced == Init /\ [][NextPlaced]_vars

\* Starting squares: the board just created gets the initial position or one
\* piece on any square, and each piece is asked whether it is on a starting
\* square.
NextStart ==
    \/ nCalls = 0 /\ SetInitialPosition
    \/ /\ nCalls = 0
       /\ \E type \in TypeSet, color \in ColorSet, sq \in AllSquares :
             AddPiece(type, color, sq)
    \/ \E i \in 1..Len(Pieces(pieceList)) : ReadIsOnStartingSquare(i)

SpecStart == Init /\ [][NextStart]_vars

\* Strings that are no square, given to the board: up to MaxCalls calls of
\* addPiece and clearSquare, with reads between.
NextSquares ==
    \/ /\ nCalls < MaxCalls
       /\ \E type \in TypeSet, color \in ColorSet, sq \in InvalidSquares :
             AddPiece(type, color, sq)
    \/ /\ nCalls < MaxCalls
       /\ \E sq \in InvalidSquares : ClearSquare(sq)
    \/ \E sq \in InvalidSquares : ReadPiece(sq)
    \/ \E sq \in InvalidSquares : ReadOccupied(sq)

SpecSquares == Init /\ [][NextSquares]_vars

\* FEN loading of a structurally invalid record into the board just created.
NextMalformed ==
    /\ nCalls = 0
    /\ \E fen \in MalformedFENs : LoadFEN(fen)

SpecMalformed == Init /\ [][NextMalformed]_vars

\* The open analyses, asked of a board with at most one piece and of that
\* piece.
NextOpen ==
    \/ /\ Pieces(pieceList) = <<>>
       /\ \E type \in TypeSet, color \in ColorSet, sq \in AllSquares :
             AddPiece(type, color, sq)
    \/ \E color \in ColorSet : AskIsInCheck(color)
    \/ \E color \in ColorSet : AskIsInDoubleCheck(color)
    \/ \E color \in ColorSet : AskIsCheckmated(color)
    \/ \E color \in ColorSet : AskIsPseudoStalemated(color)
    \/ ReadIsOverworked(1)
    \/ ReadIsEnPrise(1)

SpecOpen == Init /\ [][NextOpen]_vars

(***************************************************************************)
(* Properties.                                                             *)
(*                                                                         *)
(* A coordinate names a square as the data model has it: file 0 is 'a' and  *)
(* rank 0 is the 8th rank, so a8 = (0, 0) and h1 = (7, 7).                  *)
(***************************************************************************)
CoordinateOf(sq) ==
    [file |-> (CHOOSE i \in 1..8 : FileLetters[i] = sq[1]) - 1,
     rank |-> 8 - ((CHOOSE i \in 1..10 : DigitChars[i] = sq[2]) - 1)]

\* The pieces held in the slots of a pieceList.
PiecesIn(pl) == {pl[r][f] : r \in 0..7, f \in 0..7} \ {Null}

\* The pieces on the board.
PieceSet == PiecesIn(pieceList)

\* C1: for every valid algebraic square s, converting s to a coordinate with
\* algebraicToPoint or setSquare and converting that coordinate back with
\* toAlgebraic yields exactly s.
C1_RoundTrip ==
    (call.op = "toAlgebraic" /\ square \in AllSquares)
        => call.value = String(square)

\* C2: immediately after addPiece(kind, color, s), getPieceAtSquare(s) returns
\* a piece of that kind and color and squareIsOccupied(s) is true.
C2_AddThenRead ==
    (call.op = "addPiece" /\ call.args.square \in AllSquares)
        => LET got == GetPieceAtSquare(pieceList, call.args.square)
           IN /\ call.outcome = "returned"
              /\ got.outcome = "returned"
              /\ ~Falsy(got.value)
              /\ got.value.type = call.args.type
              /\ got.value.color = call.args.color
              /\ SquareIsOccupied(pieceList, call.args.square).value

\* C3: after any sequence of addPiece and setPositionFromFEN calls on a board
\* created empty, the piece held in pieceList[r][f] has point.rank = r and
\* point.file = f (each slot holding at most one piece).
C3_CoordinateMatchesSlot ==
    \A r \in 0..7, f \in 0..7 :
        pieceList[r][f] # Null
            => /\ pieceList[r][f].point.rank = r
               /\ pieceList[r][f].point.file = f

\* C4: for every valid square s, clearSquare(s) completes without raising an
\* error and afterwards squareIsOccupied(s) is false.
C4_ClearSquare ==
    (call.op = "clearSquare" /\ call.args.square \in AllSquares)
        => /\ call.outcome = "returned"
           /\ ~SquareIsOccupied(pieceList, call.args.square).value

\* The direction deltas (file, rank) of the rays each sliding kind walks.
StraightDirections == {<<-1, 0>>, <<1, 0>>, <<0, -1>>, <<0, 1>>}
DiagonalDirections == {<<1, -1>>, <<1, 1>>, <<-1, -1>>, <<-1, 1>>}

DirectionsOf(type) ==
    CASE type = Types.ROOK -> StraightDirections
      [] type = Types.BISHOP -> DiagonalDirections
      [] type = Types.QUEEN -> StraightDirections \cup DiagonalDirections
      [] OTHER -> {}

\* The coordinate k steps from origin o in direction d, and the coordinates of
\* the ray from o in direction d.
StepFrom(o, d, k) == [file |-> o.file + k * d[1], rank |-> o.rank + k * d[2]]
InBounds(p) == p.file \in 0..7 /\ p.rank \in 0..7
RayOf(o, d) == {p \in {StepFrom(o, d, k) : k \in 1..7} : InBounds(p)}

\* The pieces of ps whose stored coordinate is p.
PiecesOn(ps, p) == {q \in ps : q.point = p}

\* With the pieces ps on the board, the ray from o in direction d meets its
\* first piece k steps out.
FirstMetAt(ps, o, d, k) ==
    /\ InBounds(StepFrom(o, d, k))
    /\ PiecesOn(ps, StepFrom(o, d, k)) # {}
    /\ \A j \in 1..(k - 1) : PiecesOn(ps, StepFrom(o, d, j)) = {}

\* The coordinates the last enumeration produced.
MoveSet == {pseudoMoves[i] : i \in 1..Len(pseudoMoves)}

\* The last call enumerated the pseudo-moves of a bishop, rook or queen.
SliderEnumerated ==
    /\ call.op = "getpseudoLegalMovesForPiece"
    /\ call.args.piece.type \in {Types.BISHOP, Types.ROOK, Types.QUEEN}

\* A piece placed by addPiece(type, color, s) is on the board with type, color
\* and the coordinate of s.
PlacedWhereAsked ==
    call.op = "addPiece"
        => \E q \in PieceSet :
              /\ q.point = CoordinateOf(call.args.square)
              /\ q.type = call.args.type
              /\ q.color = call.args.color

\* With the pieces ps on the board and moves enumerated for piece: on every ray
\* of piece whose first piece is a king of the other color, the moves are the
\* coordinates before the king.
StopsAtEnemyKing(ps, piece, moves) ==
    \A d \in DirectionsOf(piece.type), k \in 1..7 :
        ( /\ FirstMetAt(ps, piece.point, d, k)
          /\ \E q \in PiecesOn(ps, StepFrom(piece.point, d, k)) :
                q.color # piece.color /\ q.type = Types.KING )
            => moves \cap RayOf(piece.point, d)
                  = {StepFrom(piece.point, d, j) : j \in 1..(k - 1)}

\* C5: when a bishop, rook or queen walks a ray and meets a king of the
\* opposite color, the walk of that ray stops there: neither the king's square
\* nor any square farther along that ray is a pseudo-move, while the empty
\* squares nearer than the king are.
C5_StopsAtEnemyKing ==
    SliderEnumerated => StopsAtEnemyKing(PieceSet, call.args.piece, MoveSet)

\* On every ray of piece whose first piece has the color of piece, the moves
\* are the coordinates before that piece.
StopsBeforeOwnPiece(ps, piece, moves) ==
    \A d \in DirectionsOf(piece.type), k \in 1..7 :
        ( /\ FirstMetAt(ps, piece.point, d, k)
          /\ \E q \in PiecesOn(ps, StepFrom(piece.point, d, k)) :
                q.color = piece.color )
            => moves \cap RayOf(piece.point, d)
                  = {StepFrom(piece.point, d, j) : j \in 1..(k - 1)}

\* The moves on the d-file from d4 toward d8.
MovesTowardD8(moves) == moves \cap RayOf(CoordinateOf(<<"d", "4">>), <<0, -1>>)

\* A rook on d4 was enumerated with d5 empty and a piece on d6 that has the
\* rook's color (own) or is a pawn of the other color (~own).
RookD4Case(ps, piece, own) ==
    /\ piece.type = Types.ROOK
    /\ piece.point = CoordinateOf(<<"d", "4">>)
    /\ PiecesOn(ps, CoordinateOf(<<"d", "5">>)) = {}
    /\ \E q \in PiecesOn(ps, CoordinateOf(<<"d", "6">>)) :
          IF own THEN q.color = piece.color
          ELSE q.color # piece.color /\ q.type = Types.PAWN

\* The case of C6: a rook on d4, a piece of its color on d6, d5 empty.
C6_Case ==
    /\ call.op = "getpseudoLegalMovesForPiece"
    /\ RookD4Case(PieceSet, call.args.piece, TRUE)

\* C6: when a bishop, rook or queen walks a ray and meets a piece of its own
\* color, that square and every square farther along the ray are excluded from
\* its pseudo-moves and the empty squares before it are included; with a
\* friendly piece on d6 and a rook on d4, the pseudo-moves on the d-file
\* toward d8 are exactly d5.
C6_StopsBeforeOwnPiece ==
    /\ PlacedWhereAsked
    /\ SliderEnumerated => StopsBeforeOwnPiece(PieceSet, call.args.piece, MoveSet)
    /\ C6_Case => MovesTowardD8(MoveSet) = {CoordinateOf(<<"d", "5">>)}

\* The rook of C6's example was enumerated, placed by addPiece on d4 with
\* nothing but the friendly piece on d6 beside it.
C6_OwnPieceMet ==
    /\ C6_Case
    /\ Cardinality(PieceSet) = 2
    /\ Len(pseudoMoves) > 0

\* The case of C7: a rook on d4, an opposite-color pawn on d6, d5 empty.
C7_Case ==
    /\ call.op = "getpseudoLegalMovesForPiece"
    /\ RookD4Case(PieceSet, call.args.piece, FALSE)

\* On every ray of piece whose first piece has the other color and is no king,
\* the moves are the coordinates up to and including that piece.
CaptureEndsRay(ps, piece, moves) ==
    \A d \in DirectionsOf(piece.type), k \in 1..7 :
        ( /\ FirstMetAt(ps, piece.point, d, k)
          /\ \E q \in PiecesOn(ps, StepFrom(piece.point, d, k)) :
                q.color # piece.color /\ q.type # Types.KING )
            => moves \cap RayOf(piece.point, d)
                  = {StepFrom(piece.point, d, j) : j \in 1..k}

\* C7: when a bishop, rook or queen walks a ray and the first occupied square
\* holds an opposite-color piece that is not a king, that square is a
\* pseudo-move, as are the empty squares before it, and no square farther along
\* the ray is; with an enemy pawn on d6 and a rook on d4, the pseudo-moves on
\* the d-file toward d8 are exactly d5 and d6.
C7_CaptureEndsRay ==
    /\ PlacedWhereAsked
    /\ SliderEnumerated => CaptureEndsRay(PieceSet, call.args.piece, MoveSet)
    /\ C7_Case => MovesTowardD8(MoveSet)
                     = {CoordinateOf(<<"d", "5">>), CoordinateOf(<<"d", "6">>)}

\* The rook of C7's example was enumerated and the pawn's coordinate is among
\* its moves.
C7_PawnCaptured ==
    /\ C7_Case
    /\ CoordinateOf(<<"d", "6">>) \in MoveSet

\* Every coordinate of the board.
AllCoordinates == [file : 0..7, rank : 0..7]

Abs(n) == IF n < 0 THEN 0 - n ELSE n

\* The coordinates other than o on o's file or rank, and on o's diagonals.
OrthogonalFrom(o) ==
    {p \in AllCoordinates : p # o /\ (p.file = o.file \/ p.rank = o.rank)}
DiagonalFrom(o) ==
    {p \in AllCoordinates : p # o /\ Abs(p.file - o.file) = Abs(p.rank - o.rank)}

ReachOf(piece) ==
    CASE piece.type = Types.ROOK -> OrthogonalFrom(piece.point)
      [] piece.type = Types.BISHOP -> DiagonalFrom(piece.point)
      [] piece.type = Types.QUEEN -> OrthogonalFrom(piece.point) \cup DiagonalFrom(piece.point)
      [] OTHER -> {}

\* The last call enumerated the moves of a sliding piece alone on the board.
LoneSliderEnumerated == SliderEnumerated /\ PieceSet = {call.args.piece}

\* The squares of file d and rank 4 other than d4, and of the two diagonals
\* through d4 other than d4.
RookSquaresD4 ==
    {sq \in AllSquares : sq # <<"d", "4">> /\ (sq[1] = "d" \/ sq[2] = "4")}
BishopSquaresD4 ==
    { <<"a", "1">>, <<"b", "2">>, <<"c", "3">>, <<"e", "5">>, <<"f", "6">>,
      <<"g", "7">>, <<"h", "8">>, <<"a", "7">>, <<"b", "6">>, <<"c", "5">>,
      <<"e", "3">>, <<"f", "2">>, <<"g", "1">> }

\* The moves enumerated for a lone piece, in order, are its reach, each
\* coordinate once; from d4 they are the squares the example lists.
LoneReach(piece, moves) ==
    LET moveSet == {moves[i] : i \in 1..Len(moves)}
    IN /\ moveSet = ReachOf(piece)
       /\ Len(moves) = Cardinality(moveSet)
       /\ (piece.point = CoordinateOf(<<"d", "4">>) /\ piece.type = Types.ROOK)
            => /\ moveSet = {CoordinateOf(sq) : sq \in RookSquaresD4}
               /\ Len(moves) = 14
       /\ (piece.point = CoordinateOf(<<"d", "4">>) /\ piece.type = Types.BISHOP)
            => /\ moveSet = {CoordinateOf(sq) : sq \in BishopSquaresD4}
               /\ Len(moves) = 13

\* C8: on an otherwise empty board a sliding piece's pseudo-moves are exactly
\* the squares of its applicable rays, each once: a rook on d4 gets exactly the
\* 14 squares of file d and rank 4 other than d4, a bishop on d4 exactly the 13
\* squares of the two diagonals through d4 other than d4.
C8_LoneSliderReach ==
    /\ PlacedWhereAsked
    /\ LoneSliderEnumerated => LoneReach(call.args.piece, pseudoMoves)

\* A rook alone on the board, placed by addPiece on d4, was enumerated and has
\* moves.
C8_LoneRookD4 ==
    /\ LoneSliderEnumerated
    /\ call.args.piece.type = Types.ROOK
    /\ call.args.piece.point = CoordinateOf(<<"d", "4">>)
    /\ Len(pseudoMoves) > 0

\* C9: getpseudoLegalMovesForPiece returns the destinations it enumerated, so
\* that getpseudoLegalMoves returns a non-empty list whenever some rook,
\* bishop, queen, knight or king on the board has at least one pseudo-move.
C9_ReturnsEnumerated ==
    /\ (call.op = "getpseudoLegalMovesForPiece" /\ call.args.piece.type # Types.PAWN)
        => call.value = Array(pseudoMoves)
    /\ call.op = "getpseudoLegalMoves"
        => ( (\E q \in PieceSet :
                 /\ q.type # Types.PAWN
                 /\ Len(EnumeratedMoves(pieceList, q)) > 0)
             => Len(call.value.items) > 0 )

\* FEN, read declaratively. The piece-placement field of a FEN record is what
\* precedes its first space.
PlacementOf(fen) ==
    LET spaces == {i \in 1..Len(fen) : fen[i] = " "}
        stop == IF spaces = {} THEN Len(fen) + 1
                ELSE CHOOSE i \in spaces : \A j \in spaces : i <= j
    IN SubSeq(fen, 1, stop - 1)

\* The rank a character of the field describes: the first row is rank 8 and
\* each "/" before the character moves one rank down.
RankAt(field, i) == 8 - Cardinality({j \in 1..(i - 1) : field[j] = "/"})

\* The files a character covers: a digit that many, a letter one.
WidthOf(char) ==
    CASE char = "1" -> 1 [] char = "2" -> 2 [] char = "3" -> 3 [] char = "4" -> 4
      [] char = "5" -> 5 [] char = "6" -> 6 [] char = "7" -> 7 [] char = "8" -> 8
      [] OTHER -> 1

\* The files covered by the characters j..(i - 1) of the field.
RECURSIVE WidthBetween(_, _, _)
WidthBetween(field, j, i) ==
    IF j >= i THEN 0 ELSE WidthOf(field[j]) + WidthBetween(field, j + 1, i)

\* The file (1 = a) a character of the field starts on: one past the files
\* covered since the start of its row.
FileAt(field, i) ==
    LET slashes == {j \in 1..(i - 1) : field[j] = "/"}
        start == IF slashes = {} THEN 1
                 ELSE 1 + (CHOOSE j \in slashes : \A k \in slashes : k <= j)
    IN 1 + WidthBetween(field, start, i)

\* The kind and color a piece letter of FEN stands for.
FenKinds ==
    [p |-> Types.PAWN, n |-> Types.KNIGHT, b |-> Types.BISHOP,
     r |-> Types.ROOK, q |-> Types.QUEEN, k |-> Types.KING]
FenLetters ==
    ("p" :> [kind |-> FenKinds.p, color |-> Colors.BLACK])
    @@ ("n" :> [kind |-> FenKinds.n, color |-> Colors.BLACK])
    @@ ("b" :> [kind |-> FenKinds.b, color |-> Colors.BLACK])
    @@ ("r" :> [kind |-> FenKinds.r, color |-> Colors.BLACK])
    @@ ("q" :> [kind |-> FenKinds.q, color |-> Colors.BLACK])
    @@ ("k" :> [kind |-> FenKinds.k, color |-> Colors.BLACK])
    @@ ("P" :> [kind |-> FenKinds.p, color |-> Colors.WHITE])
    @@ ("N" :> [kind |-> FenKinds.n, color |-> Colors.WHITE])
    @@ ("B" :> [kind |-> FenKinds.b, color |-> Colors.WHITE])
    @@ ("R" :> [kind |-> FenKinds.r, color |-> Colors.WHITE])
    @@ ("Q" :> [kind |-> FenKinds.q, color |-> Colors.WHITE])
    @@ ("K" :> [kind |-> FenKinds.k, color |-> Colors.WHITE])

\* The positions of the field whose piece letter stands on square sq.
LettersOn(field, sq) ==
    {i \in 1..Len(field) :
        /\ field[i] \in DOMAIN FenLetters
        /\ <<FileLetters[FileAt(field, i)], DigitChars[RankAt(field, i) + 1]>> = sq}

\* getPieceAtSquare(sq) on pieceList pl answers as the field describes sq: a
\* piece of the letter's kind and color, or null where no letter stands.
ReadsAs(pl, field, sq) ==
    LET got == GetPieceAtSquare(pl, sq)
        at == LettersOn(field, sq)
    IN /\ got.outcome = "returned"
       /\ IF at = {} THEN got.value = Null
          ELSE /\ ~Falsy(got.value)
               /\ \A i \in at : /\ got.value.type = FenLetters[field[i]].kind
                                /\ got.value.color = FenLetters[field[i]].color

\* The record "8/8/8/8/8/8/8/R7", with or without further fields.
LoneRookFENs ==
    { <<"8", "/", "8", "/", "8", "/", "8", "/", "8", "/", "8", "/", "8", "/", "R", "7">>,
      <<"8", "/", "8", "/", "8", "/", "8", "/", "8", "/", "8", "/", "8", "/", "R", "7">>
          \o TrailingFields }

\* After loading fen into an empty board, pl reads a white rook on a1 and
\* nothing on the other 63 squares.
ReadsLoneRookOnA1(pl) ==
    /\ GetPieceAtSquare(pl, <<"a", "1">>).value # Null
    /\ GetPieceAtSquare(pl, <<"a", "1">>).value.type = Types.ROOK
    /\ GetPieceAtSquare(pl, <<"a", "1">>).value.color = Colors.WHITE
    /\ Cardinality({sq \in AllSquares : GetPieceAtSquare(pl, sq).value = Null}) = 63

\* What C10 asks of the pieceList pl that loading fen left.
ReadsBackFEN(pl, fen) ==
    /\ \A sq \in AllSquares : ReadsAs(pl, PlacementOf(fen), sq)
    /\ fen \in LoneRookFENs => ReadsLoneRookOnA1(pl)

\* C10: after a well-formed FEN piece-placement field is loaded into an empty
\* board, getPieceAtSquare(s) returns for every square s the piece of the kind
\* and color the FEN places on s, or null where it places none; loading
\* "8/8/8/8/8/8/8/R7" gives a white rook on a1 and nothing on the other 63
\* squares; fields after the first space are ignored.
C10_FENReadsBack ==
    call.op = "setPositionFromFEN"
        => /\ call.outcome = "returned"
           /\ ReadsBackFEN(pieceList, call.args.fen)

\* "8/8/8/8/8/8/8/R7" followed by further fields was loaded and left a rook.
C10_LoneRookLoaded ==
    /\ call.op = "setPositionFromFEN"
    /\ call.args.fen \in LoneRookFENs
    /\ Len(call.args.fen) > 16
    /\ \E q \in PieceSet : q.type = Types.ROOK

\* The in-bounds coordinates an L-shaped jump away from o, and those at
\* Chebyshev distance 1 from o.
JumpsFrom(o) ==
    {p \in AllCoordinates :
        {Abs(p.file - o.file), Abs(p.rank - o.rank)} = {1, 2}}
NeighboursOf(o) ==
    {p \in AllCoordinates :
        /\ p # o
        /\ Abs(p.file - o.file) <= 1
        /\ Abs(p.rank - o.rank) <= 1}

\* The candidate coordinates of a stepping piece.
StepCandidates(piece) ==
    CASE piece.type = Types.KNIGHT -> JumpsFrom(piece.point)
      [] piece.type = Types.KING -> NeighboursOf(piece.point)
      [] OTHER -> {}

\* The last call enumerated the pseudo-moves of a knight or king.
StepperEnumerated ==
    /\ call.op = "getpseudoLegalMovesForPiece"
    /\ call.args.piece.type \in {Types.KNIGHT, Types.KING}

\* With the pieces ps on the board and moves enumerated for piece: a candidate
\* is a move exactly when it is empty or holds a piece of the other color that
\* is no king, and nothing but candidates are moves.
StepsWhereAllowed(ps, piece, moves) ==
    /\ moves \subseteq StepCandidates(piece)
    /\ \A p \in StepCandidates(piece) :
          p \in moves
              <=> \/ PiecesOn(ps, p) = {}
                  \/ \E q \in PiecesOn(ps, p) :
                        q.color # piece.color /\ q.type # Types.KING

\* C11: for a knight or king of color c, a candidate square from its offset or
\* neighborhood set is a pseudo-move if and only if the square is empty or
\* holds a piece of the opposite color that is not a king; squares holding a
\* piece of color c or an enemy king are never pseudo-moves.
C11_StepperMoves ==
    /\ PlacedWhereAsked
    /\ StepperEnumerated => StepsWhereAllowed(PieceSet, call.args.piece, MoveSet)

\* A knight was enumerated with an enemy king on one of its candidates, which
\* is no move, and its other candidates are moves.
C11_KnightFacesKing ==
    /\ StepperEnumerated
    /\ call.args.piece.type = Types.KNIGHT
    /\ \E q \in PieceSet :
          /\ q.point \in StepCandidates(call.args.piece)
          /\ q.color # call.args.piece.color
          /\ q.type = Types.KING
          /\ q.point \notin MoveSet
    /\ MoveSet # {}

\* The coordinates of a sequence of points.
CoordinatesIn(items) == {items[i] : i \in 1..Len(items)}

\* The points getKnightPoints returned for origin o are the L-shaped jumps from
\* o, at most 8 and none twice.
KnightPointsFrom(o, items) ==
    /\ CoordinatesIn(items) = JumpsFrom(o)
    /\ Len(items) <= 8
    /\ Len(items) = Cardinality(CoordinatesIn(items))

\* C12: for every in-bounds origin, getKnightPoints returns exactly the
\* in-bounds squares that are an L-shaped jump from the origin, at most 8 and
\* without duplicates; from b1 they are exactly a3, c3 and d2.
C12_KnightPoints ==
    (call.op = "getKnightPoints" /\ InBounds(call.args.point))
        => /\ KnightPointsFrom(call.args.point, call.value.items)
           /\ call.args.point = CoordinateOf(<<"b", "1">>)
                => CoordinatesIn(call.value.items)
                      = {CoordinateOf(<<"a", "3">>), CoordinateOf(<<"c", "3">>),
                         CoordinateOf(<<"d", "2">>)}

\* getKnightPoints was called on the point that "b1" converts to and returned
\* three points.
C12_FromB1 ==
    /\ call.op = "getKnightPoints"
    /\ square = <<"b", "1">>
    /\ call.args.point = CoordinateOf(square)
    /\ Len(call.value.items) = 3

\* Chebyshev distance of two coordinates.
Chebyshev(a, b) ==
    IF Abs(a.file - b.file) >= Abs(a.rank - b.rank)
    THEN Abs(a.file - b.file) ELSE Abs(a.rank - b.rank)

\* items is the ray from o in direction d: o + k * d for k = 1, 2, ... as long
\* as that is in bounds, in increasing k.
IsRayFrom(o, d, items) ==
    /\ \A k \in 1..Len(items) : items[k] = StepFrom(o, d, k)
    /\ \A k \in 1..Len(items) : InBounds(items[k]) /\ items[k] # o
    /\ ~InBounds(StepFrom(o, d, Len(items) + 1))
    /\ \A k \in 2..Len(items) : Chebyshev(o, items[k]) > Chebyshev(o, items[k - 1])
    /\ ~InBounds(StepFrom(o, d, 1)) => items = <<>>

\* C13: for every in-bounds origin and every direction (dx, dy) in {-1,0,1}^2
\* other than (0,0), getLine returns exactly the sequence origin + k*(dx,dy)
\* for k = 1, 2, ... while in bounds, in increasing k: never the origin or an
\* out-of-bounds coordinate, each element strictly farther from the origin
\* (Chebyshev) than the one before, empty when the first step is out of
\* bounds, and the call ends.
C13_LineIsRay ==
    ( /\ call.op = "getLine"
      /\ InBounds(call.args.point)
      /\ ~(call.args.dx = 0 /\ call.args.dy = 0) )
        => /\ call.outcome = "returned"
           /\ IsRayFrom(call.args.point, <<call.args.dx, call.args.dy>>, call.value.items)

\* getLine returned a diagonal of seven points from a corner.
C13_LongDiagonal ==
    /\ call.op = "getLine"
    /\ call.outcome = "returned"
    /\ call.args.dx # 0 /\ call.args.dy # 0
    /\ Len(call.value.items) = 7

\* C18: getLine called with both deltas zero (or both unspecified) fails with
\* an error and yields no coordinates, for every origin.
C18_ZeroDeltasFail ==
    (call.op = "getLine" /\ call.args.dx = 0 /\ call.args.dy = 0)
        => /\ call.outcome # "returned"
           /\ call.value = Undefined

\* getLine was called with both deltas zero on an in-bounds point.
C18_ZeroDeltasCalled ==
    /\ call.op = "getLine"
    /\ call.args.dx = 0 /\ call.args.dy = 0
    /\ InBounds(call.args.point)
    /\ call.outcome # "none"

\* items is the neighborhood of o: the in-bounds coordinates at Chebyshev
\* distance 1, at most 8, none twice, none of them o or out of bounds.
IsNeighborhoodOf(o, items) ==
    /\ CoordinatesIn(items) = {p \in AllCoordinates : Chebyshev(o, p) = 1}
    /\ Len(items) <= 8
    /\ Len(items) = Cardinality(CoordinatesIn(items))
    /\ \A k \in 1..Len(items) : InBounds(items[k]) /\ items[k] # o

\* C14: for every in-bounds origin, the king neighborhood (getSurroundingPoints
\* and the older getAdjacent) is exactly the set of in-bounds squares at
\* Chebyshev distance 1 from the origin: at most 8, never the origin itself,
\* never an out-of-bounds square, and no error is raised at edges or corners.
C14_KingNeighborhood ==
    ( /\ call.op \in {"getSurroundingPoints", "getAdjacent"}
      /\ InBounds(call.args.point) )
        => /\ call.outcome = "returned"
           /\ IsNeighborhoodOf(call.args.point, call.value.items)

\* getSurroundingPoints was called on a corner and returned its three
\* neighbours.
C14_CornerNeighborhood ==
    /\ call.op = "getSurroundingPoints"
    /\ call.args.point = [file |-> 0, rank |-> 0]
    /\ Len(call.value.items) = 3

\* The board operations that take a square.
SquareOps == {"getPieceAtSquare", "squareIsOccupied", "addPiece", "clearSquare"}

\* C15: every square-accepting board operation (getPieceAtSquare,
\* squareIsOccupied, addPiece / setPieceAtSquare, clearSquare), given a string
\* that does not match [a-h][1-8], fails with an error instead of reading or
\* writing any slot: the call does not return and the board stays as it was
\* created.
C15_InvalidSquareFails ==
    (call.op \in SquareOps /\ call.args.square \notin AllSquares)
        => /\ call.outcome # "returned"
           /\ pieceList = EmptyPieceList

\* Every row of pl has the eight slots 0..7 and no other.
GridKept(pl) == \A r \in 0..7 : DOMAIN pl[r] = 0..7

\* C16: setPositionFromFEN given a structurally invalid piece-placement field
\* (fewer or more than 8 ranks, an unrecognized character, or a rank describing
\* more than 8 files) fails with an error and places no piece outside the grid.
C16_MalformedFENFails ==
    (call.op = "setPositionFromFEN" /\ call.args.fen \in MalformedFENs)
        => /\ call.outcome # "returned"
           /\ GridKept(pieceList)

\* The steps of a pawn: toward rank 8 (rank index 0) for white, toward rank 1
\* for black; the rank index a pawn of each color starts on.
ForwardOf(color) == IF color = Colors.WHITE THEN -1 ELSE 1
StartRankOf(color) == IF color = Colors.WHITE THEN 6 ELSE 1

\* The pseudo-moves the pawn rules give pawn with the pieces ps on the board.
PawnRuleMoves(ps, pawn) ==
    LET o == pawn.point
        dy == ForwardOf(pawn.color)
        one == [file |-> o.file, rank |-> o.rank + dy]
        two == [file |-> o.file, rank |-> o.rank + 2 * dy]
        attacks == {[file |-> o.file - 1, rank |-> o.rank + dy],
                    [file |-> o.file + 1, rank |-> o.rank + dy]}
    IN {p \in {one} : InBounds(p) /\ PiecesOn(ps, p) = {}}
       \cup {p \in {two} : /\ InBounds(p)
                           /\ o.rank = StartRankOf(pawn.color)
                           /\ PiecesOn(ps, one) = {}
                           /\ PiecesOn(ps, p) = {}}
       \cup {p \in attacks : /\ InBounds(p)
                             /\ \E q \in PiecesOn(ps, p) : q.color # pawn.color}

\* C17: for a pawn, the one-square-forward square is a pseudo-move only if it
\* is empty, the two-squares-forward square only if the pawn is on its color's
\* starting rank and both forward squares are empty, each diagonal attack
\* square only if it holds an opposite-color piece; and getPawnPseudoMoves
\* returns exactly the squares satisfying these rules.
C17_PawnMoves ==
    (call.op = "getpseudoLegalMovesForPiece" /\ call.args.piece.type = Types.PAWN)
        => /\ MoveSet = PawnRuleMoves(PieceSet, call.args.piece)
           /\ ~Falsy(GetPawnPseudoMoves(call.args.piece))
           /\ CoordinatesIn(GetPawnPseudoMoves(call.args.piece).items)
                 = PawnRuleMoves(PieceSet, call.args.piece)

\* The capabilities this version leaves unimplemented.
OpenOps ==
    {"isInCheck", "isInDoubleCheck", "isCheckmated", "isPseudoStalemated",
     "isOverworked", "isEnPrise"}

\* C19: every capability this version leaves unimplemented (Board.isInCheck,
\* isInDoubleCheck, isCheckmated, isPseudoStalemated; Piece.isOverworked,
\* isEnPrise) signals an error when invoked, rather than returning a value
\* silently.
C19_OpenOpsSignal ==
    call.op \in OpenOps => call.outcome # "returned"

\* A step from pieceList before to pieceList after that addPiece took on square
\* s leaves what getPieceAtSquare reads on every other valid square as it was
\* and adds at most one piece.
OnlySquareChanged(before, after, s) ==
    /\ \A t \in AllSquares \ {s} :
          GetPieceAtSquare(after, t) = GetPieceAtSquare(before, t)
    /\ Cardinality(PiecesIn(after)) <= Cardinality(PiecesIn(before)) + 1

\* C20: addPiece(kind, color, s) changes the occupant of s only: for every
\* valid square t different from s, getPieceAtSquare(t) returns the same
\* result after the call as before it, and the number of pieces on the board
\* grows by at most one.
C20_AddPieceFrame ==
    [][ (call'.op = "addPiece" /\ nCalls' = nCalls + 1
            /\ call'.args.square \in AllSquares)
          => OnlySquareChanged(pieceList, pieceList', call'.args.square) ]_vars

\* getPieceAtSquare on pl returns piece for the square piece reports.
FoundOnOwnSquare(pl, piece, sq) ==
    /\ sq # Null
    /\ GetPieceAtSquare(pl, sq) = [outcome |-> "returned", value |-> piece]

\* Every piece board.pieces lists for pl is what getPieceAtSquare returns for
\* the square that piece reports.
PiecesFoundOnOwnSquare(pl) ==
    LET pieces == Pieces(pl)
    IN \A i \in 1..Len(pieces) : FoundOnOwnSquare(pl, pieces[i], PieceSquare(pieces[i]))

\* C21: after any sequence of addPiece and setPositionFromFEN calls, for every
\* piece p returned by board.pieces, getPieceAtSquare(p.square) returns p
\* itself.
C21_PieceOnOwnSquare == PiecesFoundOnOwnSquare(pieceList)

\* A piece was added to a board that a FEN record had filled before.
C21_AddedAfterLoad ==
    /\ call.op = "addPiece"
    /\ call.outcome = "returned"
    /\ nCalls = 2
    /\ Len(Pieces(pieceList)) >= 3

\* The rank number of the row a color's pawns start on.
StartNumberOf(color) == IF color = Colors.WHITE THEN "2" ELSE "7"

\* A step in which a pawn of the initial position, loaded into an empty board,
\* answers isOnStartingSquare.
InitialPawnAsked ==
    /\ call.op = "setPositionFromFEN"
    /\ call.args.fen = InitialFEN
    /\ nCalls = 1
    /\ call'.op = "isOnStartingSquare"
    /\ call'.args.piece.type = Types.PAWN

\* A step in which the pawn addPiece has just placed on an empty board answers
\* isOnStartingSquare.
AddedPawnAsked ==
    /\ call.op = "addPiece"
    /\ call.args.type = Types.PAWN
    /\ nCalls = 1
    /\ call'.op = "isOnStartingSquare"
    /\ call'.args.piece.type = Types.PAWN

\* The pawn placed by addPiece answers true exactly when the square asked for
\* is on the starting rank of its color.
AddedPawnAnswer ==
    AddedPawnAsked
        => /\ call'.outcome = "returned"
           /\ call'.value = Boolean(call.args.square[2] = StartNumberOf(call.args.color))

\* The initial position has 16 pawns and each of them answers true.
InitialPawnAnswer ==
    InitialPawnAsked
        => /\ Cardinality({q \in PieceSet : q.type = Types.PAWN}) = 16
           /\ call'.outcome = "returned"
           /\ call'.value = Boolean(TRUE)

\* C22: after setInitialPosition on an empty board, Pawn.isOnStartingSquare
\* returns true for every one of the 16 pawns on the board (white pawns on
\* rank 2, black pawns on rank 7), and it returns true for a pawn placed by
\* addPiece exactly when the pawn is placed on its own color's starting rank.
C22_PawnsOnStartingSquare ==
    [][ InitialPawnAnswer /\ AddedPawnAnswer ]_vars

=============================================================================
